---- MODULE Spec2Model ----
(***************************************************************************)
(* A model of pprgo/pprgo.py: the layer sequence PPRGoMLP builds, the      *)
(* scatter aggregation of PPRGo.forward and the robust-mean call of        *)
(* RobustPPRGo.forward.                                                    *)
(*                                                                         *)
(* Tensors are modelled by their shape and, where the values matter, by    *)
(* integer matrices.  A quotient is kept as a fraction [num, den] and two  *)
(* fractions are compared by cross multiplication.  The robust means are   *)
(* external: a call to one is modelled by the record of the function       *)
(* called and the positional and keyword arguments it was called with.     *)
(***************************************************************************)
EXTENDS Integers, Sequences, FiniteSets

(* ------------------------------ bounds --------------------------------- *)

\* largest number of rows of X (num_ppr_nodes)
MaxN == 3
\* largest batch id in ppr_idx
MaxBatchId == 2
\* largest num_features / hidden_size / num_classes of the layer model
MaxDim == 3
\* largest nlayers
MaxLayers == 4
\* largest configured k of mean_kwargs (besides the default)
MaxK == 3

\* dropout probabilities, in tenths
DropoutVals == {0, 5}
\* values a PPR score takes
ScoreVals == {1, 2}
\* the logit rows the MLP yields for a node, over `classes` classes
LogitRows(classes) == {[c \in 1..classes |-> c], [c \in 1..classes |-> 3 + c]}
\* the sparse PPR matrices handed to RobustPPRGo.forward
PPRMatrices == {"ppr_A", "ppr_B"}

(* --------------------------- program constants ------------------------- *)

\* mean_kwargs default: k=32
DefaultK == 32
\* mean_kwargs default: temperature=1.0
DefaultTemperature == 1

VARIABLES
    cls,              \* the class of the object: "PPRGoMLP", "PPRGo" or "RobustPPRGo"
    args,             \* the arguments the constructor was called with
    layers,           \* self.layers / self.mlp.layers: the nn.Sequential's layers
    self_aggr,        \* PPRGo: self.aggr
    self_mean,        \* RobustPPRGo: self._mean
    self_mean_kwargs, \* RobustPPRGo: self._mean_kwargs, a dict as a sequence of <<key, value>>
    input,            \* the arguments of the latest forward call
    mlp_values,       \* the values the dense layers compute for X
    logits,           \* the latest forward call's logits
    call,             \* the latest forward call's call of scatter / self._mean
    out,              \* the latest forward call's return value
    pc,               \* "constructed", "returned" or "raised"
    forcedBefore      \* RobustPPRGo: an earlier forward call passed with_weight_correction=False itself

vars == <<cls, args, layers, self_aggr, self_mean, self_mean_kwargs, input,
          mlp_values, logits, call, out, pc, forcedBefore>>

\* a variable the object or the call does not use
None == <<>>

\* an optional constructor argument: <<>> when the caller omits it, <<v>> when given
Omitted == <<>>
Given(v) == <<v>>
Arg(opt, default) == IF opt = Omitted THEN default ELSE opt[1]

(* ------------------------------ PPRGoMLP ------------------------------- *)

MixedLinear(in_features, out_features) ==
    [type |-> "MixedLinear", in_features |-> in_features, out_features |-> out_features]

Linear(in_features, out_features) ==
    [type |-> "Linear", in_features |-> in_features, out_features |-> out_features]

BatchNorm1d(num_features) == [type |-> "BatchNorm1d", num_features |-> num_features]

ReLU == [type |-> "ReLU"]

MixedDropout(p) == [type |-> "MixedDropout", p |-> p]

\* one pass of the loop body `for i in range(nlayers - 2)`
HiddenBlock(hidden_size, dropout, batch_norm) ==
    <<ReLU, MixedDropout(dropout), Linear(hidden_size, hidden_size)>>
        \o (IF batch_norm THEN <<BatchNorm1d(hidden_size)>> ELSE <<>>)

RECURSIVE HiddenBlocks(_, _, _, _)
\* the layers the loop appends in `count` passes; range(count) is empty for count <= 0
HiddenBlocks(count, hidden_size, dropout, batch_norm) ==
    IF count <= 0 THEN <<>>
    ELSE HiddenBlocks(count - 1, hidden_size, dropout, batch_norm)
            \o HiddenBlock(hidden_size, dropout, batch_norm)

\* mutant: the loop runs nlayers - 1 times
MLPInitExtraBlock(num_features, num_classes, hidden_size, nlayers, dropout, batch_norm) ==
    <<MixedLinear(num_features, hidden_size)>>
        \o (IF batch_norm THEN <<BatchNorm1d(hidden_size)>> ELSE <<>>)
        \o HiddenBlocks(nlayers - 1, hidden_size, dropout, batch_norm)
        \o <<ReLU, MixedDropout(dropout), Linear(hidden_size, num_classes)>>

\* mutant: the output transform reads num_classes inputs
MLPInitBadOutput(num_features, num_classes, hidden_size, nlayers, dropout, batch_norm) ==
    <<MixedLinear(num_features, hidden_size)>>
        \o (IF batch_norm THEN <<BatchNorm1d(hidden_size)>> ELSE <<>>)
        \o HiddenBlocks(nlayers - 2, hidden_size, dropout, batch_norm)
        \o <<ReLU, MixedDropout(dropout), Linear(num_classes, num_classes)>>

\* mutant: the input transform is not followed by the normalization
MLPInitNoFirstNorm(num_features, num_classes, hidden_size, nlayers, dropout, batch_norm) ==
    <<MixedLinear(num_features, hidden_size)>>
        \o HiddenBlocks(nlayers - 2, hidden_size, dropout, batch_norm)
        \o <<ReLU, MixedDropout(dropout), Linear(hidden_size, num_classes)>>

\* PPRGoMLP.__init__: the list handed to nn.Sequential
PPRGoMLP_init(num_features, num_classes, hidden_size, nlayers, dropout, batch_norm) ==
    <<MixedLinear(num_features, hidden_size)>>
        \o (IF batch_norm THEN <<BatchNorm1d(hidden_size)>> ELSE <<>>)
        \o HiddenBlocks(nlayers - 2, hidden_size, dropout, batch_norm)
        \o <<ReLU, MixedDropout(dropout), Linear(hidden_size, num_classes)>>

IsLinear(layer) == layer.type \in {"MixedLinear", "Linear"}

\* a shape no tensor has: the layer raised a size mismatch
ShapeError == <<>>

\* the shape one layer gives a tensor of shape <<rows, cols>>
LayerShape(layer, shape) ==
    IF shape = ShapeError THEN ShapeError
    ELSE IF IsLinear(layer)
         THEN IF shape[2] = layer.in_features
              THEN <<shape[1], layer.out_features>> ELSE ShapeError
    ELSE IF layer.type = "BatchNorm1d"
         THEN IF shape[2] = layer.num_features THEN shape ELSE ShapeError
    ELSE shape

RECURSIVE SequentialShape(_, _)
\* nn.Sequential: the layers applied in order
SequentialShape(ls, shape) ==
    IF ls = <<>> THEN shape
    ELSE SequentialShape(Tail(ls), LayerShape(Head(ls), shape))

\* PPRGoMLP.forward, on shapes
PPRGoMLP_forward(ls, X) == SequentialShape(ls, X)

(* ------------------------------- PPRGo --------------------------------- *)

\* PPRGo.__init__: the fields it stores
PPRGo_init(a) ==
    [layers |-> PPRGoMLP_init(a.num_features, a.num_classes, a.hidden_size,
                              a.nlayers, a.dropout, a.batch_norm),
     aggr   |-> Arg(a.aggr, "sum")]

\* the number of columns of a matrix kept as a sequence of rows
Cols(m) == IF m = <<>> THEN 0 ELSE Len(m[1])

\* logits * ppr_scores[:, None]
Weighted(lg, ppr_scores) ==
    [i \in 1..Len(lg) |-> [c \in 1..Len(lg[i]) |-> lg[i][c] * ppr_scores[i]]]

RECURSIVE ScatterAdd(_, _, _, _, _)
\* scatter_add_ along dim 0 into out[b][c], over the entries 1..i
ScatterAdd(src, index, b, c, i) ==
    IF i = 0 THEN 0
    ELSE ScatterAdd(src, index, b, c, i - 1) + (IF index[i] = b THEN src[i][c] ELSE 0)

RECURSIVE ScatterCount(_, _, _)
\* scatter_add_ of ones: the number of entries 1..i with index b
ScatterCount(index, b, i) ==
    IF i = 0 THEN 0
    ELSE ScatterCount(index, b, i - 1) + (IF index[i] = b THEN 1 ELSE 0)

\* a quotient num / den
Frac(num, den) == [num |-> num, den |-> den]

\* torch_scatter.scatter(src, index[:, None], dim=0, dim_size, reduce) for reduce
\* "sum" and "mean": row r of the value is the output row of index r - 1.
\* An index outside 0..dim_size-1 makes scatter_add_ raise.
scatter(src, index, dim_size, reduce) ==
    IF \E i \in 1..Len(index) : index[i] < 0 \/ index[i] >= dim_size
    THEN [ok |-> FALSE, value |-> <<>>]
    ELSE [ok |-> TRUE,
          value |->
            [r \in 1..dim_size |->
                [c \in 1..Cols(src) |->
                    LET total == ScatterAdd(src, index, r - 1, c, Len(index))
                        count == ScatterCount(index, r - 1, Len(index))
                    IN  IF reduce = "mean"
                        THEN Frac(total, IF count < 1 THEN 1 ELSE count)
                        ELSE Frac(total, 1)]]]

\* mutant: the output has ppr_idx[-1] rows
DimSizeNoPlusOne(ppr_idx) == ppr_idx[Len(ppr_idx)]

\* dim_size=ppr_idx[-1] + 1
DimSize(ppr_idx) == ppr_idx[Len(ppr_idx)] + 1

NoCall == [fn |-> "none"]

Raised(lg) == [pc |-> "raised", logits |-> lg, call |-> NoCall, out |-> <<>>]

\* mutant: the logits are scattered without their PPR scores
PPRGoForwardUnweighted(ls, aggr, X, ppr_scores, ppr_idx, values) ==
    LET shape == PPRGoMLP_forward(ls, X) IN
    IF shape = ShapeError THEN Raised(<<>>)
    ELSE
    LET lg == [i \in 1..shape[1] |-> [c \in 1..shape[2] |-> values[i][c]]] IN
    IF Len(ppr_idx) = 0 \/ Len(ppr_scores) # Len(lg) THEN Raised(lg)
    ELSE
    LET r == scatter(lg, ppr_idx, DimSize(ppr_idx), aggr) IN
    IF ~r.ok THEN Raised(lg)
    ELSE [pc |-> "returned", logits |-> lg,
          call |-> [fn |-> "scatter", dim_size |-> DimSize(ppr_idx), reduce |-> aggr],
          out |-> r.value]

\* mutant: the reduction is always the sum
PPRGoForwardAlwaysSum(ls, aggr, X, ppr_scores, ppr_idx, values) ==
    LET shape == PPRGoMLP_forward(ls, X) IN
    IF shape = ShapeError THEN Raised(<<>>)
    ELSE
    LET lg == [i \in 1..shape[1] |-> [c \in 1..shape[2] |-> values[i][c]]] IN
    IF Len(ppr_idx) = 0 \/ Len(ppr_scores) # Len(lg) THEN Raised(lg)
    ELSE
    LET r == scatter(Weighted(lg, ppr_scores), ppr_idx, DimSize(ppr_idx), "sum") IN
    IF ~r.ok THEN Raised(lg)
    ELSE [pc |-> "returned", logits |-> lg,
          call |-> [fn |-> "scatter", dim_size |-> DimSize(ppr_idx), reduce |-> "sum"],
          out |-> r.value]

\* PPRGo.forward: the logits of the MLP, weighted and scattered.  `values` are
\* the values the layers compute for X; ppr_idx[-1] of an empty ppr_idx raises.
PPRGo_forward(ls, aggr, X, ppr_scores, ppr_idx, values) ==
    LET shape == PPRGoMLP_forward(ls, X) IN
    IF shape = ShapeError THEN Raised(<<>>)
    ELSE
    LET lg == [i \in 1..shape[1] |-> [c \in 1..shape[2] |-> values[i][c]]] IN
    IF Len(ppr_idx) = 0 \/ Len(ppr_scores) # Len(lg) THEN Raised(lg)
    ELSE
    LET r == scatter(Weighted(lg, ppr_scores), ppr_idx, DimSize(ppr_idx), aggr) IN
    IF ~r.ok THEN Raised(lg)
    ELSE [pc |-> "returned", logits |-> lg,
          call |-> [fn |-> "scatter", dim_size |-> DimSize(ppr_idx), reduce |-> aggr],
          out |-> r.value]

(* ----------------------------- RobustPPRGo ----------------------------- *)

\* the names ROBUST_MEANS has
MeanNames == {"soft_k_medoid", "soft_median", "k_medoid"}

\* rgnn_at_scale.aggregation.ROBUST_MEANS: name -> function
ROBUST_MEANS == [m \in MeanNames |-> [function |-> m]]

\* dict(k=32, temperature=1.0, with_weight_correction=True)
DefaultMeanKwargs ==
    << <<"k", DefaultK>>, <<"temperature", DefaultTemperature>>,
       <<"with_weight_correction", TRUE>> >>

\* `key in d.keys()`
HasKey(d, key) == \E i \in 1..Len(d) : d[i][1] = key

\* d[key]
Get(d, key) == d[CHOOSE i \in 1..Len(d) : d[i][1] = key][2]

RECURSIVE Without(_, _)
\* {k: v for k, v in d.items() if k != key}
Without(d, key) ==
    IF d = <<>> THEN <<>>
    ELSE (IF Head(d)[1] # key THEN <<Head(d)>> ELSE <<>>) \o Without(Tail(d), key)

\* a call f(.., **kw) raises TypeError when a keyword is passed twice
DuplicateKeyword(kw) == \E i, j \in 1..Len(kw) : i # j /\ kw[i][1] = kw[j][1]

\* RobustPPRGo.__init__: the fields it stores
RobustPPRGo_init(a) ==
    [mean        |-> ROBUST_MEANS[Arg(a.mean, "soft_k_medoid")],
     mean_kwargs |-> Arg(a.mean_kwargs, DefaultMeanKwargs),
     layers      |-> PPRGoMLP_init(a.num_features, a.num_classes, a.hidden_size,
                                   a.nlayers, a.dropout, a.batch_norm)]

\* the tensor the MLP returns for X, known by its shape
LogitsTensor(shape) == [tensor |-> "logits", shape |-> shape]

\* the sparse PPR matrix of `batch` rows over the n nodes of X
PPRTensor(name, batch, n) == [tensor |-> name, shape |-> <<batch, n>>]

\* the call fn(*positional, **keywords) and what it returns
Apply(fn, positional, keywords) ==
    [fn |-> fn, positional |-> positional, keywords |-> keywords]

MeanResult(c) == [tensor |-> "robust_mean", of |-> c]

\* the state and outcome of a forward call that raises
RobustRaised(mean_kwargs) ==
    [pc |-> "raised", logits |-> LogitsTensor(<<>>), call |-> NoCall,
     out |-> MeanResult(NoCall), mean_kwargs |-> mean_kwargs, forced |-> FALSE]

\* mutant: the logits are passed first and the PPR matrix second
MeanCallSwapped(mean, mean_kwargs, ppr_scores, lg, keywords, forced) ==
    IF DuplicateKeyword(keywords) THEN RobustRaised(mean_kwargs)
    ELSE [pc |-> "returned", logits |-> lg,
          call |-> Apply(mean, <<lg, ppr_scores>>, keywords),
          out |-> MeanResult(Apply(mean, <<lg, ppr_scores>>, keywords)),
          mean_kwargs |-> mean_kwargs, forced |-> forced]

\* the outcome of the call self._mean(ppr_scores, logits, **keywords)
MeanCall(mean, mean_kwargs, ppr_scores, lg, keywords, forced) ==
    IF DuplicateKeyword(keywords) THEN RobustRaised(mean_kwargs)
    ELSE [pc |-> "returned", logits |-> lg,
          call |-> Apply(mean, <<ppr_scores, lg>>, keywords),
          out |-> MeanResult(Apply(mean, <<ppr_scores, lg>>, keywords)),
          mean_kwargs |-> mean_kwargs, forced |-> forced]

\* mutant: the correction is also switched off for k = n
RobustForwardAtLeast(ls, mean, mean_kwargs, X, ppr_scores) ==
    LET shape == PPRGoMLP_forward(ls, X) IN
    IF shape = ShapeError THEN RobustRaised(mean_kwargs)
    ELSE
    LET lg == LogitsTensor(shape) IN
    IF /\ HasKey(mean_kwargs, "k") /\ HasKey(mean_kwargs, "with_weight_correction")
       /\ Get(mean_kwargs, "k") >= X[1]
    THEN MeanCall(mean, mean_kwargs, ppr_scores, lg,
                  << <<"with_weight_correction", FALSE>> >>
                      \o Without(mean_kwargs, "with_weight_correction"),
                  TRUE)
    ELSE MeanCall(mean, mean_kwargs, ppr_scores, lg, mean_kwargs, FALSE)

\* mutant: with_weight_correction is switched off in self._mean_kwargs itself
RobustForwardStoring(ls, mean, mean_kwargs, X, ppr_scores) ==
    LET shape == PPRGoMLP_forward(ls, X) IN
    IF shape = ShapeError THEN RobustRaised(mean_kwargs)
    ELSE
    LET lg == LogitsTensor(shape)
        forcedKwargs == [i \in 1..Len(mean_kwargs) |->
                            IF mean_kwargs[i][1] = "with_weight_correction"
                            THEN <<"with_weight_correction", FALSE>>
                            ELSE mean_kwargs[i]]
    IN
    IF /\ HasKey(mean_kwargs, "k") /\ HasKey(mean_kwargs, "with_weight_correction")
       /\ Get(mean_kwargs, "k") > X[1]
    THEN MeanCall(mean, forcedKwargs, ppr_scores, lg, forcedKwargs, TRUE)
    ELSE MeanCall(mean, mean_kwargs, ppr_scores, lg, mean_kwargs, FALSE)

\* RobustPPRGo.forward; the field mean_kwargs of the result is self._mean_kwargs
\* after the call
RobustPPRGo_forward(ls, mean, mean_kwargs, X, ppr_scores) ==
    LET shape == PPRGoMLP_forward(ls, X) IN
    IF shape = ShapeError THEN RobustRaised(mean_kwargs)
    ELSE
    LET lg == LogitsTensor(shape) IN
    IF /\ HasKey(mean_kwargs, "k") /\ HasKey(mean_kwargs, "with_weight_correction")
       /\ Get(mean_kwargs, "k") > X[1]
    THEN MeanCall(mean, mean_kwargs, ppr_scores, lg,
                  << <<"with_weight_correction", FALSE>> >>
                      \o Without(mean_kwargs, "with_weight_correction"),
                  TRUE)
    ELSE MeanCall(mean, mean_kwargs, ppr_scores, lg, mean_kwargs, FALSE)

(* ------------------------- the three objects --------------------------- *)

\* the constructor arguments of PPRGoMLP
MLPArgs ==
    [num_features : 1..MaxDim, num_classes : 1..MaxDim, hidden_size : 1..MaxDim,
     nlayers : 0..MaxLayers, dropout : DropoutVals, batch_norm : BOOLEAN]

\* the number of classes of the PPRGo and RobustPPRGo objects
ClassCounts == {1, 2}

\* the MLP arguments of the PPRGo and RobustPPRGo objects
WrappedMLPArgs ==
    [num_features : {2}, num_classes : ClassCounts, hidden_size : {2},
     nlayers : {2}, dropout : {0}, batch_norm : {FALSE}]

Extend(a, f) == [k \in (DOMAIN a) \cup (DOMAIN f) |-> IF k \in DOMAIN f THEN f[k] ELSE a[k]]

PPRGoArgs ==
    {Extend(a, [aggr |-> g]) :
        a \in WrappedMLPArgs, g \in {Omitted, Given("sum"), Given("mean")}}

\* a dict entry, or none
Entry(key, opt) == IF opt = Omitted THEN <<>> ELSE << <<key, opt[1]>> >>

\* the mean_kwargs a caller configures
MeanKwargsSet ==
    {Entry("k", k) \o Entry("temperature", t) \o Entry("with_weight_correction", w) :
        k \in {Omitted} \cup {Given(v) : v \in 1..MaxK},
        t \in {Omitted, Given(DefaultTemperature)},
        w \in {Omitted, Given(TRUE), Given(FALSE)}}

RobustArgs ==
    {Extend(a, [mean |-> m, mean_kwargs |-> kw]) :
        a \in WrappedMLPArgs,
        m \in {Omitted} \cup {Given(v) : v \in MeanNames},
        kw \in {Omitted} \cup {Given(v) : v \in MeanKwargsSet}}

InitMLP ==
    /\ cls = "PPRGoMLP"
    /\ args \in MLPArgs
    /\ layers = PPRGoMLP_init(args.num_features, args.num_classes, args.hidden_size,
                              args.nlayers, args.dropout, args.batch_norm)
    /\ self_aggr = None
    /\ self_mean = None
    /\ self_mean_kwargs = None
    /\ input = None
    /\ mlp_values = None
    /\ logits = None
    /\ call = NoCall
    /\ out = None
    /\ pc = "constructed"
    /\ forcedBefore = FALSE

\* PPRGoMLP.forward on a tensor X of any shape
MLPForward ==
    /\ cls = "PPRGoMLP"
    /\ \E rows \in 1..MaxN, cols \in 1..MaxDim :
        /\ input' = [X |-> <<rows, cols>>]
        /\ out' = PPRGoMLP_forward(layers, <<rows, cols>>)
        /\ pc' = IF PPRGoMLP_forward(layers, <<rows, cols>>) = ShapeError
                 THEN "raised" ELSE "returned"
    /\ UNCHANGED <<cls, args, layers, self_aggr, self_mean, self_mean_kwargs,
                   mlp_values, logits, call, forcedBefore>>

SpecMLP == InitMLP /\ [][MLPForward]_vars

\* the forward arguments of a PPRGo with the given arguments: n rows of
\* num_features features, a score and a batch id per row
PPRGoInputs(a) ==
    UNION {[X : {<<n, a.num_features>>},
            ppr_scores : [1..n -> ScoreVals],
            ppr_idx : [1..n -> 0..MaxBatchId]] : n \in 0..MaxN}

InitPPRGo ==
    /\ cls = "PPRGo"
    /\ args \in PPRGoArgs
    /\ layers = PPRGo_init(args).layers
    /\ self_aggr = PPRGo_init(args).aggr
    /\ self_mean = None
    /\ self_mean_kwargs = None
    /\ input \in PPRGoInputs(args)
    /\ mlp_values \in [1..input.X[1] -> LogitRows(args.num_classes)]
    /\ logits = None
    /\ call = NoCall
    /\ out = None
    /\ pc = "constructed"
    /\ forcedBefore = FALSE

\* PPRGo.forward(X, ppr_scores, ppr_idx)
PPRGoForward ==
    /\ cls = "PPRGo"
    /\ LET r == PPRGo_forward(layers, self_aggr, input.X, input.ppr_scores,
                              input.ppr_idx, mlp_values)
       IN  /\ logits' = r.logits
           /\ call' = r.call
           /\ out' = r.out
           /\ pc' = r.pc
    /\ UNCHANGED <<cls, args, layers, self_aggr, self_mean, self_mean_kwargs,
                   input, mlp_values, forcedBefore>>

SpecPPRGo == InitPPRGo /\ [][PPRGoForward]_vars

InitRobust ==
    /\ cls = "RobustPPRGo"
    /\ args \in RobustArgs
    /\ layers = RobustPPRGo_init(args).layers
    /\ self_aggr = None
    /\ self_mean = RobustPPRGo_init(args).mean
    /\ self_mean_kwargs = RobustPPRGo_init(args).mean_kwargs
    /\ input = None
    /\ mlp_values = None
    /\ logits = None
    /\ call = NoCall
    /\ out = None
    /\ pc = "constructed"
    /\ forcedBefore = FALSE

\* RobustPPRGo.forward(X, ppr_scores)
RobustForward ==
    /\ cls = "RobustPPRGo"
    /\ \E n \in 0..MaxN, name \in PPRMatrices, batch \in 1..2 :
        LET X == <<n, args.num_features>>
            ppr == PPRTensor(name, batch, n)
            r == RobustPPRGo_forward(layers, self_mean, self_mean_kwargs, X, ppr)
        IN  /\ input' = [X |-> X, ppr_scores |-> ppr]
            /\ logits' = r.logits
            /\ call' = r.call
            /\ out' = r.out
            /\ pc' = r.pc
            /\ self_mean_kwargs' = r.mean_kwargs
            /\ forcedBefore' = (forcedBefore \/ r.forced)
    /\ UNCHANGED <<cls, args, layers, self_aggr, self_mean, mlp_values>>

SpecRobust == InitRobust /\ [][RobustForward]_vars

(* ------------------------------ PPRGoMLP claims ------------------------ *)

\* the positions of the linear transforms in self.layers
LinearAt == {i \in 1..Len(layers) : IsLinear(layers[i])}
FirstLinear == CHOOSE i \in LinearAt : \A j \in LinearAt : i <= j
LastLinear == CHOOSE i \in LinearAt : \A j \in LinearAt : j <= i
\* the position of the linear transform that follows the one at i
NextLinear(i) == CHOOSE j \in LinearAt : j > i /\ \A k \in LinearAt : k > i => j <= k
NormAt == {i \in 1..Len(layers) : layers[i].type = "BatchNorm1d"}

\* C4: the dimensions of the layer sequence are chained: the first linear
\* transform takes num_features inputs, the last one gives num_classes outputs,
\* each linear transform but the last gives hidden_size outputs, which is the
\* input size of the next linear transform and of every normalization layer
\* between the two; a tensor of num_features columns is mapped to one of
\* num_classes columns with the same rows.
C4_ChainedDimensions ==
    /\ LinearAt # {}
    /\ layers[FirstLinear].in_features = args.num_features
    /\ layers[LastLinear].out_features = args.num_classes
    /\ \A i \in LinearAt \ {LastLinear} :
        /\ layers[i].out_features = args.hidden_size
        /\ layers[NextLinear(i)].in_features = layers[i].out_features
        /\ \A k \in NormAt :
            (i < k /\ k < NextLinear(i)) => layers[k].num_features = layers[i].out_features
    /\ \A k \in NormAt : k > FirstLinear /\ k < LastLinear
    /\ (pc # "constructed" /\ input.X[2] = args.num_features) =>
            (pc = "returned" /\ out = <<input.X[1], args.num_classes>>)

C4_Witness ==
    /\ pc = "returned"
    /\ args.nlayers = 4 /\ args.batch_norm
    /\ args.num_features = 1 /\ args.hidden_size = 2 /\ args.num_classes = 3
    /\ out = <<2, 3>>

\* C8: without batch_norm there is no normalization layer; with batch_norm
\* every linear transform but the final one is immediately followed by a
\* normalization layer; the final linear transform is the last layer; every
\* linear transform but the first is immediately preceded by a nonlinearity
\* followed by dropout.
C8_OptionalCompleteNormalization ==
    /\ (~args.batch_norm) => NormAt = {}
    /\ args.batch_norm =>
        \A i \in LinearAt \ {LastLinear} :
            i + 1 <= Len(layers) /\ layers[i + 1].type = "BatchNorm1d"
    /\ LastLinear = Len(layers)
    /\ \A i \in LinearAt \ {FirstLinear} :
        /\ i >= 3
        /\ layers[i - 2].type = "ReLU"
        /\ layers[i - 1].type = "MixedDropout"

C8_Witness ==
    /\ pc = "constructed"
    /\ args.batch_norm /\ args.nlayers = 4
    /\ Cardinality(NormAt) = 3
    /\ Len(layers) = 13

\* C9 as stated: for every nlayers >= 1 the layer sequence holds exactly nlayers
\* linear transforms.
C9_ExactlyNlayersFromOne ==
    args.nlayers >= 1 => Cardinality(LinearAt) = args.nlayers

\* C9, amended: for every nlayers >= 2 the layer sequence holds exactly nlayers
\* linear transforms, one input transform, nlayers - 2 hidden transforms and one
\* output transform; for nlayers = 1 it holds two, the input and the output
\* transform.
C9_ExactlyNlayersFromTwo ==
    LET hidden == {i \in LinearAt :
                      /\ i # FirstLinear /\ i # LastLinear
                      /\ layers[i] = Linear(args.hidden_size, args.hidden_size)}
    IN  /\ args.nlayers >= 2 =>
            /\ Cardinality(LinearAt) = args.nlayers
            /\ Cardinality(hidden) = args.nlayers - 2
        /\ args.nlayers = 1 => (Cardinality(LinearAt) = 2 /\ hidden = {})
        /\ args.nlayers >= 1 =>
            /\ layers[FirstLinear] = MixedLinear(args.num_features, args.hidden_size)
            /\ layers[LastLinear] = Linear(args.hidden_size, args.num_classes)
            /\ FirstLinear # LastLinear

C9_Witness ==
    /\ pc = "constructed"
    /\ args.nlayers = 4
    /\ Cardinality(LinearAt) = 4

(* ------------------------------- PPRGo claims -------------------------- *)

\* two quotients are the same number
FracEq(f, g) == f.num * g.den = g.num * f.den

RECURSIVE SumOver(_, _)
\* the sum of f[i] over the i of S
SumOver(S, f) ==
    IF S = {} THEN 0
    ELSE LET i == CHOOSE j \in S : TRUE IN f[i] + SumOver(S \ {i}, f)

\* the entries of batch id b
EntriesOf(b) == {i \in 1..Len(input.ppr_idx) : input.ppr_idx[i] = b}

\* the sum over the entries of b of the MLP's logit for class c times the score
WeightedSum(b, c) ==
    SumOver(EntriesOf(b),
            [i \in 1..Len(input.ppr_idx) |-> mlp_values[i][c] * input.ppr_scores[i]])

RECURSIVE MaxOf(_)
MaxOf(S) ==
    LET i == CHOOSE j \in S : TRUE
    IN  IF S = {i} THEN i
        ELSE LET m == MaxOf(S \ {i}) IN IF i > m THEN i ELSE m

\* the largest batch id occurring in ppr_idx
LargestId == MaxOf({input.ppr_idx[i] : i \in 1..Len(input.ppr_idx)})

\* C1: with aggr "sum" (the default) the value forward returns holds, for every
\* batch id b and class c, the sum over the entries i with ppr_idx[i] = b of
\* logits[i][c] * ppr_scores[i], the logits being the MLP's output for X: every
\* entry has the row of its own batch id and is added there once, nowhere else.
C1_SumAggregation ==
    (pc = "returned" /\ Arg(args.aggr, "sum") = "sum") =>
        /\ logits = mlp_values
        /\ \A i \in 1..Len(input.ppr_idx) : input.ppr_idx[i] + 1 \in 1..Len(out)
        /\ \A r \in 1..Len(out) :
            /\ Len(out[r]) = args.num_classes
            /\ \A c \in 1..args.num_classes : out[r][c] = Frac(WeightedSum(r - 1, c), 1)

C1_Witness ==
    /\ pc = "returned"
    /\ args.aggr = Omitted /\ args.num_classes = 2
    /\ input.ppr_idx = <<1, 0, 1>> /\ input.ppr_scores = <<1, 2, 2>>
    /\ mlp_values[1] # mlp_values[3]
    /\ out[2][1] = Frac(mlp_values[1][1] + 2 * mlp_values[3][1], 1)

\* the result has one row per batch id up to the largest one, and num_classes columns
DocumentedShape ==
    /\ Len(out) = LargestId + 1
    /\ \A r \in 1..Len(out) : Len(out[r]) = args.num_classes

\* C2 as stated: for every non-empty input, whatever the order of the batch ids,
\* forward returns a result of shape (largest batch id + 1, num_classes).
C2_ShapeInAnyOrder ==
    (pc # "constructed" /\ Len(input.ppr_idx) >= 1) =>
        (pc = "returned" /\ DocumentedShape)

\* C2, amended: for every non-empty input whose last batch id is the largest one
\* of ppr_idx, as in a non-decreasing ppr_idx, forward returns a result of shape
\* (largest batch id + 1, num_classes); for every other order it raises.
C2_ShapeWhenLastIsLargest ==
    (pc # "constructed" /\ Len(input.ppr_idx) >= 1) =>
        IF input.ppr_idx[Len(input.ppr_idx)] = LargestId
        THEN pc = "returned" /\ DocumentedShape
        ELSE pc = "raised"

C2_Witness ==
    /\ pc = "returned"
    /\ input.ppr_idx = <<2, 0, 2>>
    /\ args.num_classes = 2
    /\ Len(out) = 3 /\ Len(out[2]) = 2

\* C7: constructed with aggr "mean", forward returns for every batch id b that
\* has entries the sum of logits[i] * ppr_scores[i] over the entries of b
\* divided by their number; the reduction of every forward call is the aggr
\* given at construction.
C7_MeanAggregation ==
    pc = "returned" =>
        /\ call.reduce = Arg(args.aggr, "sum")
        /\ args.aggr = Given("mean") =>
            \A r \in 1..Len(out) :
                EntriesOf(r - 1) # {} =>
                    \A c \in 1..args.num_classes :
                        /\ out[r][c].den > 0
                        /\ FracEq(out[r][c],
                                  Frac(WeightedSum(r - 1, c), Cardinality(EntriesOf(r - 1))))

C7_Witness ==
    /\ pc = "returned"
    /\ args.aggr = Given("mean")
    /\ input.ppr_idx = <<0, 0, 2>> /\ input.ppr_scores = <<1, 2, 1>>
    /\ mlp_values[1][1] = 1 /\ mlp_values[2][1] = 4
    /\ out[1][1] = Frac(9, 2)

(* ---------------------------- RobustPPRGo claims ----------------------- *)

\* the mean_kwargs the object was constructed with
Configured == Arg(args.mean_kwargs, DefaultMeanKwargs)

\* a dict or the keywords of a call, as the set of its <<key, value>>
Items(d) == {d[i] : i \in 1..Len(d)}

\* the forward call had k and with_weight_correction configured and n < k
FewerThanK ==
    /\ HasKey(Configured, "k") /\ HasKey(Configured, "with_weight_correction")
    /\ input.X[1] < Get(Configured, "k")

\* C3: forward always returns the result of the robust mean named at
\* construction (soft_k_medoid when none is named), called with the sparse PPR
\* matrix first and the MLP's logits of X second; the function is the same in
\* every call.
C3_RobustMeanCalled ==
    /\ self_mean = ROBUST_MEANS[Arg(args.mean, "soft_k_medoid")]
    /\ pc # "raised"
    /\ pc = "returned" =>
        /\ call.fn = ROBUST_MEANS[Arg(args.mean, "soft_k_medoid")]
        /\ call.positional =
              <<input.ppr_scores, LogitsTensor(<<input.X[1], args.num_classes>>)>>
        /\ out = MeanResult(call)

C3_Witness ==
    /\ pc = "returned"
    /\ forcedBefore
    /\ args.mean = Omitted
    /\ call.fn = [function |-> "soft_k_medoid"]
    /\ input.X[1] = 2
    /\ call.positional[1].tensor = "ppr_B" /\ call.positional[2].tensor = "logits"

\* C5: with k and with_weight_correction configured and n < k the mean is called
\* with with_weight_correction=False once and every other configured keyword
\* unchanged; in every other case with exactly the configured mean_kwargs.
C5_WeightCorrectionOffBelowK ==
    pc = "returned" =>
        /\ ~DuplicateKeyword(call.keywords)
        /\ IF FewerThanK
           THEN Items(call.keywords) =
                    {<<"with_weight_correction", FALSE>>}
                        \cup {kv \in Items(Configured) : kv[1] # "with_weight_correction"}
           ELSE Items(call.keywords) = Items(Configured)

C5_Witness ==
    /\ pc = "returned"
    /\ Configured = << <<"k", 3>>, <<"temperature", 1>>, <<"with_weight_correction", TRUE>> >>
    /\ input.X[1] = 2
    /\ Len(call.keywords) = 3
    /\ Get(call.keywords, "with_weight_correction") = FALSE
    /\ Get(call.keywords, "k") = 3

\* C6: forward never modifies the stored mean_kwargs, so a call with n >= k that
\* follows a call with n < k passes the configured with_weight_correction.
C6_MeanKwargsKept ==
    /\ self_mean_kwargs = Configured
    /\ (/\ pc = "returned" /\ forcedBefore /\ ~FewerThanK) =>
            Get(call.keywords, "with_weight_correction")
                = Get(Configured, "with_weight_correction")

C6_Witness ==
    /\ pc = "returned"
    /\ forcedBefore
    /\ Get(Configured, "k") = 2 /\ input.X[1] = 2
    /\ Get(Configured, "with_weight_correction") = TRUE
    /\ Get(call.keywords, "with_weight_correction") = TRUE

====
